---- MODULE Spec2Model ----
(***************************************************************************)
(* A model of heitx: Row (src/src/row.rs), Document (src/src/document.rs), *)
(* FileType (src/src/filetype.rs) and Editor (src/src/editor.rs).          *)
(*                                                                         *)
(* A string is a sequence of Unicode scalar values; a scalar is written as *)
(* a one-character TLA+ string, except "CM", which stands for U+0301       *)
(* COMBINING ACUTE ACCENT (a Grapheme_Extend scalar), and "BT", which      *)
(* stands for the backtick U+0060.                                         *)
(* Positions are 0-based as in the source; sequences are 1-based.          *)
(***************************************************************************)
EXTENDS Integers, Sequences, FiniteSets, TLC

VARIABLES
    row,        \* SpecRow: the Row L under test
    tail,       \* SpecRow: the other Row (argument of append, result of split)
    hist,       \* SpecRow: the last operations on row, most recent first
    hrows,      \* SpecHl: the rows being highlighted
    hopts,      \* SpecHl: the FileType whose HighlightingOptions are in use
    hcall,      \* SpecHl: the last highlight call, None before the first
    rows,       \* SpecDoc: Document.rows
    dirty,      \* SpecDoc: Document.dirty
    filename,   \* SpecDoc: Document.filename, None or Some
    filetype,   \* SpecDoc: Document.filetype
    last,       \* SpecDoc: the last Document operation, its arguments and result
    should_quit,      \* SpecEditor: Editor.should_quit
    cursor_position,  \* SpecEditor: Editor.cursor_position
    offset,           \* SpecEditor: Editor.offset
    quit_count,       \* SpecEditor: Editor.quit_count
    presses           \* SpecEditor: how many of the keys processed last, up to
                      \* now, were Ctrl-C one after the other

vars == <<row, tail, hist, hrows, hopts, hcall, rows, dirty, filename, filetype, last,
          should_quit, cursor_position, offset, quit_count, presses>>
rowVars == <<row, tail, hist>>
hlVars == <<hrows, hopts, hcall>>
docVars == <<rows, dirty, filename, filetype, last>>
edVars == <<should_quit, cursor_position, offset, quit_count, presses>>

\* Option<T>
None == <<>>
Some(x) == <<x>>

(***************************************************************************)
(* Bounds of the model.                                                    *)
(***************************************************************************)
MaxLen == 3         \* longest Row content (scalars) the Row operations build
MaxPos == 4         \* largest position argument tried
MaxDocChars == 2    \* most scalars (line breaks included) of a file opened, and
                    \* most scalars plus rows of a Document that still grows
MaxHlLen == 2       \* longest enumerated line handed to Row::highlight

(***************************************************************************)
(* Characters.                                                             *)
(***************************************************************************)
\* char::is_ascii_digit
is_ascii_digit(c) == c \in {"0", "1", "2", "3", "4", "5", "6", "7", "8", "9"}

\* char::is_ascii_punctuation
is_ascii_punctuation(c) ==
    c \in {"!", "\"", "#", "$", "%", "&", "'", "(", ")", "*", "+", ",", "-", ".", "/",
           ":", ";", "<", "=", ">", "?", "@", "[", "\\", "]", "^", "_", "BT",
           "{", "|", "}", "~"}

\* char::is_ascii_whitespace
is_ascii_whitespace(c) == c \in {" ", "\t", "\n", "\f", "\r"}

is_separators(c) == is_ascii_punctuation(c) \/ is_ascii_whitespace(c)

\* Grapheme_Cluster_Break = Extend
IsExtend(c) == c = "CM"
\* Grapheme_Cluster_Break = Control, CR or LF
IsControl(c) == c \in {"\t", "\n", "\r", "\f"}

\* UAX #29: is there a cluster boundary before s[i], 2 <= i <= Len(s)
\* (GB3 CR x LF, GB4/GB5 break around controls, GB9 no break before Extend).
BreakBefore(s, i) ==
    IF s[i - 1] = "\r" /\ s[i] = "\n" THEN FALSE
    ELSE IF IsControl(s[i - 1]) \/ IsControl(s[i]) THEN TRUE
    ELSE ~IsExtend(s[i])

\* index of the last scalar of the cluster that starts at s[1]
FirstClusterEnd(s) ==
    IF \E j \in 2..Len(s) : BreakBefore(s, j)
    THEN (CHOOSE j \in 2..Len(s) :
              BreakBefore(s, j) /\ \A k \in 2..(j - 1) : ~BreakBefore(s, k)) - 1
    ELSE Len(s)

\* str::graphemes(true): the sequence of grapheme clusters of s
RECURSIVE graphemes(_)
graphemes(s) ==
    IF s = <<>> THEN <<>>
    ELSE LET e == FirstClusterEnd(s)
         IN  <<SubSeq(s, 1, e)>> \o graphemes(SubSeq(s, e + 1, Len(s)))

\* concatenation of a sequence of strings (String::push_str in a loop, collect)
RECURSIVE Flatten(_)
Flatten(ss) == IF ss = <<>> THEN <<>> ELSE Head(ss) \o Flatten(Tail(ss))

\* every string over alphabet A of at most n scalars
RECURSIVE Strings(_, _)
Strings(A, n) ==
    IF n = 0 THEN {<<>>}
    ELSE LET S == Strings(A, n - 1)
         IN  S \cup {Append(s, c) : s \in {t \in S : Len(t) = n - 1}, c \in A}

(***************************************************************************)
(* Row (src/src/row.rs).                                                   *)
(***************************************************************************)
Row_default == [string |-> <<>>, highlighting |-> <<>>, len |-> 0]

Row_from(slice) ==
    [string |-> slice, highlighting |-> <<>>, len |-> Len(graphemes(slice))]

Row_len(r) == r.len

Row_insert(r, pos, c) ==
    IF pos >= r.len
    THEN [r EXCEPT !.string = Append(@, c), !.len = @ + 1]
    ELSE LET g == graphemes(r.string)
             res == Flatten([i \in 1..Len(g) |->
                                IF i - 1 = pos THEN <<c>> \o g[i] ELSE g[i]])
             len == Len(g) + Cardinality({i \in 1..Len(g) : i - 1 = pos})
         IN  [r EXCEPT !.string = res, !.len = len]

\* Row::delete without the early return for pos >= len()
Row_delete_no_return(r, pos) ==
    LET g == graphemes(r.string)
        kept == {i \in 1..Len(g) : i - 1 # pos}
    IN  [r EXCEPT !.string = Flatten([i \in 1..Len(g) |-> IF i \in kept THEN g[i] ELSE <<>>]),
                  !.len = Len(g) + Cardinality(kept)]

Row_delete(r, pos) ==
    IF pos >= r.len
    THEN r
    ELSE LET g == graphemes(r.string)
             res == Flatten([i \in 1..Len(g) |->
                                IF i - 1 # pos THEN g[i] ELSE <<>>])
             len == Len(g) + Cardinality({i \in 1..Len(g) : i - 1 # pos})
         IN  [r EXCEPT !.string = res, !.len = len]

Row_append(r, new) ==
    [r EXCEPT !.string = r.string \o new.string, !.len = r.len + new.len]

\* Row::split cutting at the scalar index pos instead of the cluster index
Row_split_by_scalar(r, pos) ==
    LET n == Len(r.string)
        k == IF pos < n THEN pos ELSE n
    IN  [row |-> [r EXCEPT !.string = SubSeq(r.string, 1, k), !.len = k],
         split |-> [string |-> SubSeq(r.string, k + 1, n), highlighting |-> <<>>,
                    len |-> n - k]]

\* the Row left in place (row) and the Row returned (split)
Row_split(r, pos) ==
    LET g == graphemes(r.string)
        keep == {i \in 1..Len(g) : i - 1 < pos}
        rowstr == Flatten([i \in 1..Len(g) |-> IF i \in keep THEN g[i] ELSE <<>>])
        splitstr == Flatten([i \in 1..Len(g) |-> IF i \in keep THEN <<>> ELSE g[i]])
    IN  [row |-> [r EXCEPT !.string = rowstr, !.len = Cardinality(keep)],
         split |-> [string |-> splitstr, highlighting |-> <<>>,
                    len |-> Len(g) - Cardinality(keep)]]

(***************************************************************************)
(* SpecRow: one Row built with Row::from, under insert, delete, split and  *)
(* append.  hist holds the last operation (name, arguments, the Row before *)
(* it); below it the operation before that is kept when the last one is   *)
(* its inverse: a delete after an insert, an append after a split.         *)
(***************************************************************************)
RowAlphabet == {"a", "b", "CM"}

Op(name, pos, c, pre) == [op |-> name, pos |-> pos, c |-> c, pre |-> pre]

Push(h, o) ==
    IF h # <<>> /\ <<h[1].op, o.op>> \in {<<"insert", "delete">>, <<"split", "append">>}
    THEN <<o, h[1]>>
    ELSE <<o>>

HlIdle == hrows = <<>> /\ hopts = None /\ hcall = None
DocIdle ==
    /\ rows = <<>> /\ dirty = FALSE /\ filename = None /\ filetype = None
    /\ last = None
RowIdle == row = Row_default /\ tail = Row_default /\ hist = <<>>
EdIdle ==
    /\ should_quit = FALSE /\ cursor_position = None /\ offset = None
    /\ quit_count = 0 /\ presses = 0

InitRow ==
    /\ row \in {Row_from(s) : s \in Strings(RowAlphabet, MaxLen)}
    /\ tail = Row_default
    /\ hist = <<>>
    /\ HlIdle /\ DocIdle /\ EdIdle

RowInsert(pos, c) ==
    /\ Len(row.string) < MaxLen
    /\ row' = Row_insert(row, pos, c)
    /\ tail' = Row_default
    /\ hist' = Push(hist, Op("insert", pos, c, row))
    /\ UNCHANGED <<edVars, hlVars, docVars>>

RowDelete(pos) ==
    /\ row' = Row_delete(row, pos)
    /\ tail' = Row_default
    /\ hist' = Push(hist, Op("delete", pos, "", row))
    /\ UNCHANGED <<edVars, hlVars, docVars>>

\* let T = L.split(pos): T is held in tail until the next operation
RowSplit(pos) ==
    /\ row' = Row_split(row, pos).row
    /\ tail' = Row_split(row, pos).split
    /\ hist' = Push(hist, Op("split", pos, "", row))
    /\ UNCHANGED <<edVars, hlVars, docVars>>

\* L.append(&other), other being the T of the split just made or a fresh Row
RowAppend(other) ==
    /\ Len(row.string) + Len(other.string) <= MaxLen
    /\ row' = Row_append(row, other)
    /\ tail' = Row_default
    /\ hist' = Push(hist, Op("append", 0, other, row))
    /\ UNCHANGED <<edVars, hlVars, docVars>>

NextRow ==
    \/ \E pos \in 0..MaxPos, c \in RowAlphabet : RowInsert(pos, c)
    \/ \E pos \in 0..MaxPos : RowDelete(pos)
    \/ \E pos \in 0..MaxPos : RowSplit(pos)
    \/ \E other \in {tail} \cup {Row_from(<<c>>) : c \in RowAlphabet} : RowAppend(other)

SpecRow == InitRow /\ [][NextRow]_vars

\* clusters [from, to) of string s, concatenated
Clusters(s, from, to) ==
    LET g == graphemes(s)
    IN  Flatten([i \in 1..Len(g) |-> IF from <= i - 1 /\ i - 1 < to THEN g[i] ELSE <<>>])

GraphemeCount(s) == Len(graphemes(s))

\* C1: after any sequence of insert, delete, split and append on a Row built
\* with Row::from, len() equals the number of grapheme clusters of the content.
C1_LenIsGraphemeCount == row.len = GraphemeCount(row.string)

\* C2: insert(pos, c) with 0 <= pos <= len() followed by delete(pos) restores
\* the Row's original content and its original len().
C2_InsertDeleteRestores ==
    (/\ Len(hist) = 2
     /\ hist[1].op = "delete" /\ hist[2].op = "insert"
     /\ hist[1].pos = hist[2].pos
     /\ hist[2].pos <= hist[2].pre.len)
    => /\ row.string = hist[2].pre.string
       /\ row.len = hist[2].pre.len

\* the last operation was T = L.split(pos) with pos <= L.len()
SplitDone ==
    /\ hist # <<>> /\ hist[1].op = "split"
    /\ hist[1].pos <= hist[1].pre.len

\* the last two operations were T = L.split(pos), pos <= L.len(), and L.append(T)
SplitAppendDone ==
    /\ Len(hist) = 2
    /\ hist[1].op = "append" /\ hist[2].op = "split"
    /\ hist[2].pos <= hist[2].pre.len
    /\ hist[1].c.string = Clusters(hist[2].pre.string, hist[2].pos, Len(hist[2].pre.string))
    /\ hist[1].c.highlighting = <<>>

\* C3: after T = L.split(pos), L holds exactly the clusters [0, pos), T holds
\* exactly the clusters [pos, end) and T's labels are empty; L.append(T) then
\* gives back L's original content.
C3_SplitAppendInverse ==
    /\ SplitDone =>
          /\ row.string = Clusters(hist[1].pre.string, 0, hist[1].pos)
          /\ tail.string = Clusters(hist[1].pre.string, hist[1].pos, Len(hist[1].pre.string))
          /\ tail.highlighting = <<>>
    /\ SplitAppendDone => row.string = hist[2].pre.string

\* a Row with a two-scalar cluster was split between two clusters and merged again
C3_Witness ==
    /\ SplitAppendDone
    /\ hist[2].pos = 1
    /\ GraphemeCount(hist[2].pre.string) >= 2
    /\ Len(hist[2].pre.string) > GraphemeCount(hist[2].pre.string)
    /\ row.string = hist[2].pre.string

(***************************************************************************)
(* Row::search and Row::highlight (src/src/row.rs) and the language        *)
(* profiles (src/src/filetype.rs).                                         *)
(***************************************************************************)
\* char::len_utf8 of the scalars of the model
Utf8Len(c) == IF c = "CM" THEN 2 ELSE 1

\* the length in bytes of the first n scalars of s
RECURSIVE ByteLenUpTo(_, _)
ByteLenUpTo(s, n) == IF n = 0 THEN 0 ELSE Utf8Len(s[n]) + ByteLenUpTo(s, n - 1)

\* str::len: the length of s in bytes (one per scalar, one more for each
\* scalar that takes two)
ByteLen(s) == Len(s) + Len(SelectSeq(s, LAMBDA c : Utf8Len(c) = 2))

\* the scalar offsets at which query occurs in s (0-based)
Occurrences(s, query) ==
    {p \in 0..(Len(s) - Len(query)) : SubSeq(s, p + 1, p + Len(query)) = query}

Minimum(S) == CHOOSE x \in S : \A y \in S : x <= y
Maximum(S) == CHOOSE x \in S : \A y \in S : x >= y

\* str::find / str::rfind: None or Some(byte index of the first / last match)
str_find(s, query, direction) ==
    LET occ == Occurrences(s, query)
    IN  IF occ = {} THEN None
        ELSE LET p == IF direction = "Forward" THEN Minimum(occ) ELSE Maximum(occ)
             IN  Some(ByteLen(SubSeq(s, 1, p)))

\* str::grapheme_indices(true): the byte offset of every cluster of s
grapheme_indices(s) ==
    LET g == graphemes(s)
    IN  [i \in 1..Len(g) |-> ByteLen(Flatten(SubSeq(g, 1, i - 1)))]

\* Row::search without the test for an empty query
Row_search_no_empty_check(r, query, after, direction) ==
    IF after > r.len
    THEN None
    ELSE LET start == IF direction = "Forward" THEN after ELSE 0
             end == IF direction = "Forward" THEN r.len ELSE after
             g == graphemes(r.string)
             substring == Flatten([i \in 1..Len(g) |->
                              IF start <= i - 1 /\ i - 1 < end THEN g[i] ELSE <<>>])
             matching_byte_index == str_find(substring, query, direction)
             gi == grapheme_indices(substring)
         IN  IF matching_byte_index = None THEN None
             ELSE LET hit == {k \in 1..Len(gi) : gi[k] = matching_byte_index[1]}
                  IN  IF hit = {} THEN None
                      ELSE Some((Minimum(hit) - 1) + start)

\* Row::search that returns the column within the substring searched
Row_search_relative(r, query, after, direction) ==
    IF after > r.len \/ query = <<>>
    THEN None
    ELSE LET start == IF direction = "Forward" THEN after ELSE 0
             end == IF direction = "Forward" THEN r.len ELSE after
             g == graphemes(r.string)
             \* .skip(start).take(end - start).collect()
             substring == Flatten([i \in 1..Len(g) |->
                              IF start <= i - 1 /\ i - 1 < end THEN g[i] ELSE <<>>])
             matching_byte_index == str_find(substring, query, direction)
             gi == grapheme_indices(substring)
         IN  IF matching_byte_index = None THEN None
             ELSE LET hit == {k \in 1..Len(gi) : gi[k] = matching_byte_index[1]}
                  IN  IF hit = {} THEN None
                      ELSE Some(Minimum(hit) - 1)

Row_search(r, query, after, direction) ==
    IF after > r.len \/ query = <<>>
    THEN None
    ELSE LET start == IF direction = "Forward" THEN after ELSE 0
             end == IF direction = "Forward" THEN r.len ELSE after
             g == graphemes(r.string)
             \* .skip(start).take(end - start).collect()
             substring == Flatten([i \in 1..Len(g) |->
                              IF start <= i - 1 /\ i - 1 < end THEN g[i] ELSE <<>>])
             matching_byte_index == str_find(substring, query, direction)
             gi == grapheme_indices(substring)
         IN  IF matching_byte_index = None THEN None
             ELSE LET hit == {k \in 1..Len(gi) : gi[k] = matching_byte_index[1]}
                  IN  IF hit = {} THEN None
                      ELSE Some((Minimum(hit) - 1) + start)

\* n copies of label t pushed onto hl
PushN(hl, t, n) == hl \o [i \in 1..n |-> t]

Declined(st) == [ok |-> FALSE, index |-> st.index, hl |-> st.hl]
Consumed(index, hl) == [ok |-> TRUE, index |-> index, hl |-> hl]

\* st = [index, hl]: the scan index and self.highlighting; c = chars[index]
highlight_char(st, opts, c, chars) ==
    IF opts.characters /\ c = "'" /\ st.index + 1 < Len(chars)
    THEN LET next_char == chars[st.index + 2]
             closing_index == IF next_char = "\\" THEN st.index + 3 ELSE st.index + 2
         IN  IF closing_index < Len(chars) /\ chars[closing_index + 1] = "'"
             THEN Consumed(closing_index + 1,
                           PushN(st.hl, "Character", closing_index - st.index + 1))
             ELSE Declined(st)
    ELSE Declined(st)

highlight_comment(st, opts, c, chars) ==
    IF /\ opts.comments /\ c = "/" /\ st.index < Len(chars)
       /\ st.index + 1 < Len(chars) /\ chars[st.index + 2] = "/"
    THEN Consumed(Len(chars), PushN(st.hl, "Comment", Len(chars) - st.index))
    ELSE Declined(st)

\* the loop of highlight_string: push, advance, stop at a quote or at the end
RECURSIVE string_loop(_, _, _)
string_loop(index, hl, chars) ==
    LET hl1 == Append(hl, "String")
        index1 == index + 1
    IN  IF index1 < Len(chars) /\ chars[index1 + 1] # "\""
        THEN string_loop(index1, hl1, chars)
        ELSE [index |-> index1, hl |-> hl1]

\* highlight_string without the label pushed after its loop
highlight_string_no_last_push(st, opts, c, chars) ==
    IF opts.strings /\ c = "\""
    THEN LET l == string_loop(st.index, st.hl, chars)
         IN  Consumed(l.index + 1, l.hl)
    ELSE Declined(st)

highlight_string(st, opts, c, chars) ==
    IF opts.strings /\ c = "\""
    THEN LET l == string_loop(st.index, st.hl, chars)
         IN  Consumed(l.index + 1, Append(l.hl, "String"))
    ELSE Declined(st)

\* the loop of highlight_number: push, advance, go on over digits and '.'
RECURSIVE number_loop(_, _, _)
number_loop(index, hl, chars) ==
    LET hl1 == Append(hl, "Number")
        index1 == index + 1
    IN  IF index1 < Len(chars) /\ (chars[index1 + 1] = "." \/ is_ascii_digit(chars[index1 + 1]))
        THEN number_loop(index1, hl1, chars)
        ELSE [index |-> index1, hl |-> hl1]

\* highlight_number without the look at the previous character
highlight_number_no_prev(st, opts, c, chars) ==
    IF opts.numbers /\ is_ascii_digit(c)
    THEN LET l == number_loop(st.index, st.hl, chars)
         IN  Consumed(l.index, l.hl)
    ELSE Declined(st)

highlight_number(st, opts, c, chars) ==
    IF opts.numbers /\ is_ascii_digit(c)
    THEN IF st.index > 0 /\ ~is_separators(chars[st.index])
         THEN Declined(st)
         ELSE LET l == number_loop(st.index, st.hl, chars)
              IN  Consumed(l.index, l.hl)
    ELSE Declined(st)

highlight_str(st, substring, chars, hl_type) ==
    IF substring = <<>> THEN Declined(st)
    ELSE IF \E k \in 1..Len(substring) :
                st.index + (k - 1) >= Len(chars) \/ chars[st.index + k] # substring[k]
    THEN Declined(st)
    ELSE Consumed(st.index + ByteLen(substring), PushN(st.hl, hl_type, ByteLen(substring)))

\* usize::saturating_sub
saturating_sub(a, b) == IF a > b THEN a - b ELSE 0

\* the for loop of highlight_keywords over the words from the k-th on
RECURSIVE keywords_loop(_, _, _, _, _)
keywords_loop(st, chars, keywords, hl_type, k) ==
    IF k > Len(keywords) THEN Declined(st)
    ELSE LET word == keywords[k]
             word_len == ByteLen(word)
         IN  IF /\ st.index < saturating_sub(Len(chars), word_len)
                /\ ~is_separators(chars[st.index + word_len + 1])
             THEN keywords_loop(st, chars, keywords, hl_type, k + 1)
             ELSE LET r == highlight_str(st, word, chars, hl_type)
                  IN  IF r.ok THEN r
                      ELSE keywords_loop(st, chars, keywords, hl_type, k + 1)

\* highlight_keywords without the check of the character after the word
highlight_keywords_no_next(st, chars, keywords, hl_type) ==
    IF st.index > 0 /\ ~is_separators(chars[st.index])
    THEN Declined(st)
    ELSE LET hits == {k \in 1..Len(keywords) : highlight_str(st, keywords[k], chars, hl_type).ok}
         IN  IF hits = {} THEN Declined(st)
             ELSE highlight_str(st, keywords[Minimum(hits)], chars, hl_type)

highlight_keywords(st, chars, keywords, hl_type) ==
    IF st.index > 0 /\ ~is_separators(chars[st.index])
    THEN Declined(st)
    ELSE keywords_loop(st, chars, keywords, hl_type, 1)

highlight_primary_keywords(st, opts, chars) ==
    highlight_keywords(st, chars, opts.primary_keywords, "PrimaryKeywords")

highlight_secondary_keywords(st, opts, chars) ==
    highlight_keywords(st, chars, opts.secondary_keywords, "SecondaryKeywords")

\* one iteration of the while loop of Row::highlight: the first matcher that
\* consumes wins, else one None label is pushed
scan_step(st, opts, chars) ==
    LET c == chars[st.index + 1]
        m1 == highlight_char(st, opts, c, chars)
        m2 == highlight_comment(st, opts, c, chars)
        m3 == highlight_string(st, opts, c, chars)
        m4 == highlight_number(st, opts, c, chars)
        m5 == highlight_primary_keywords(st, opts, chars)
        m6 == highlight_secondary_keywords(st, opts, chars)
        m == IF m1.ok THEN m1 ELSE IF m2.ok THEN m2 ELSE IF m3.ok THEN m3
             ELSE IF m4.ok THEN m4 ELSE IF m5.ok THEN m5 ELSE IF m6.ok THEN m6
             ELSE Consumed(st.index + 1, Append(st.hl, "None"))
    IN  [index |-> m.index, hl |-> m.hl]

\* the while loop of Row::highlight (each step's result is bound as a value)
RECURSIVE scan_loop(_, _, _)
scan_loop(st, opts, chars) ==
    IF st.index >= Len(chars) THEN st
    ELSE CHOOSE res \in {scan_loop(next, opts, chars) : next \in {scan_step(st, opts, chars)}} : TRUE

\* the values [index, hl] the while loop of Row::highlight finds a character
\* at, from st on
RECURSIVE scan_states(_, _, _)
scan_states(st, opts, chars) ==
    IF st.index >= Len(chars) THEN {}
    ELSE {st} \cup CHOOSE res \in {scan_states(next, opts, chars) :
                                      next \in {scan_step(st, opts, chars)}} : TRUE

\* the values of index at the head of the while loop of highlight_match
RECURSIVE overlay_indexes(_, _, _)
overlay_indexes(r, word, index) ==
    LET search_match == Row_search(r, word, index, "Forward")
    IN  IF search_match = None THEN <<index>>
        ELSE <<index>> \o overlay_indexes(r, word, search_match[1] + GraphemeCount(word))

\* the while loop of highlight_match from search start index
RECURSIVE match_loop(_, _, _)
match_loop(r, word, index) ==
    LET search_match == Row_search(r, word, index, "Forward")
    IN  IF search_match = None THEN r
        ELSE LET next_index == search_match[1] + GraphemeCount(word)
                 marked == [i \in 1..Len(r.highlighting) |->
                               IF index + search_match[1] <= i - 1 /\ i - 1 < next_index
                               THEN "Match" ELSE r.highlighting[i]]
             IN  CHOOSE res \in {match_loop(r1, word, next_index) :
                                    r1 \in {[r EXCEPT !.highlighting = marked]}} : TRUE

\* word: None or Some(string)
highlight_match(r, word) ==
    IF word = None THEN r
    ELSE IF word[1] = <<>> THEN r
    ELSE match_loop(r, word[1], 0)

Row_highlight(r, opts, word) ==
    LET chars == r.string
        st == scan_loop([index |-> 0, hl |-> <<>>], opts, chars)
    IN  highlight_match([r EXCEPT !.highlighting = st.hl], word)

HighlightingOptions_default ==
    [numbers |-> FALSE, strings |-> FALSE, characters |-> FALSE, comments |-> FALSE,
     multiple_comments |-> FALSE, primary_keywords |-> <<>>, secondary_keywords |-> <<>>]

\* A FileType is represented by its name; highlighting_options gives the hl_opts
\* that FileType::from and FileType::default store with that name.  A FileType
\* with any other name carries its hl_opts itself.
FileType_default == [name |-> "no filetype"]

\* filetype.rs:33-85
rust_primary_keywords ==
    <<
    <<"a", "s">>, <<"b", "r", "e", "a", "k">>, <<"c", "o", "n", "s", "t">>,
    <<"c", "o", "n", "t", "i", "n", "u", "e">>, <<"c", "r", "a", "t", "e">>,
    <<"e", "l", "s", "e">>, <<"e", "n", "u", "m">>, <<"e", "x", "t", "e", "r", "n">>,
    <<"f", "a", "l", "s", "e">>, <<"f", "n">>, <<"f", "o", "r">>, <<"i", "f">>,
    <<"i", "m", "p", "l">>, <<"i", "n">>, <<"l", "e", "t">>, <<"l", "o", "o", "p">>,
    <<"m", "a", "t", "c", "h">>, <<"m", "o", "d">>, <<"m", "o", "v", "e">>, <<"m", "u", "t">>,
    <<"p", "u", "b">>, <<"r", "e", "f">>, <<"r", "e", "t", "u", "r", "n">>,
    <<"s", "e", "l", "f">>, <<"S", "e", "l", "f">>, <<"s", "t", "a", "t", "i", "c">>,
    <<"s", "t", "r", "u", "c", "t">>, <<"s", "u", "p", "e", "r">>,
    <<"t", "r", "a", "i", "t">>, <<"t", "r", "u", "e">>, <<"t", "y", "p", "e">>,
    <<"u", "n", "s", "a", "f", "e">>, <<"u", "s", "e">>, <<"w", "h", "e", "r", "e">>,
    <<"w", "h", "i", "l", "e">>, <<"d", "y", "n">>,
    <<"a", "b", "s", "t", "r", "a", "c", "t">>, <<"b", "e", "c", "o", "m", "e">>,
    <<"b", "o", "x">>, <<"d", "o">>, <<"f", "i", "n", "a", "l">>, <<"m", "a", "c", "r", "o">>,
    <<"o", "v", "e", "r", "r", "i", "d", "e">>, <<"p", "r", "i", "v">>,
    <<"t", "y", "p", "e", "o", "f">>, <<"u", "n", "s", "i", "z", "e", "d">>,
    <<"v", "i", "r", "t", "u", "a", "l">>, <<"y", "i", "e", "l", "d">>,
    <<"a", "s", "y", "n", "c">>, <<"a", "w", "a", "i", "t">>, <<"t", "r", "y">> >>

\* filetype.rs:87-102
rust_secondary_keywords ==
    <<
    <<"b", "o", "o", "l">>, <<"c", "h", "a", "r">>, <<"i", "8">>, <<"i", "1", "6">>,
    <<"i", "3", "2">>, <<"i", "6", "4">>, <<"i", "s", "i", "z", "e">>, <<"u", "8">>,
    <<"u", "1", "6">>, <<"u", "3", "2">>, <<"u", "6", "4">>, <<"u", "s", "i", "z", "e">>,
    <<"f", "3", "2">>, <<"f", "6", "4">> >>

\* filetype.rs:104-142
java_primary_keywords ==
    <<
    <<"v", "o", "i", "d">>, <<"n", "u", "l", "l">>, <<"t", "r", "u", "e">>,
    <<"f", "a", "l", "s", "e">>, <<"e", "n", "u", "m">>, <<"p", "u", "b", "l", "i", "c">>,
    <<"p", "r", "o", "t", "e", "c", "t", "e", "d">>, <<"d", "e", "f", "a", "u", "l", "t">>,
    <<"p", "r", "i", "v", "a", "t", "e">>, <<"c", "l", "a", "s", "s">>,
    <<"i", "n", "t", "e", "r", "f", "a", "c", "e">>,
    <<"a", "b", "s", "t", "r", "a", "c", "t">>,
    <<"i", "m", "p", "l", "e", "m", "e", "n", "t">>, <<"e", "x", "t", "e", "n", "d", "s">>,
    <<"n", "e", "w">>, <<"i", "m", "p", "o", "r", "t">>,
    <<"p", "a", "c", "k", "a", "g", "e">>, <<"i", "f">>, <<"e", "l", "s", "e">>,
    <<"w", "h", "i", "l", "e">>, <<"f", "o", "r">>, <<"s", "w", "i", "t", "c", "h">>,
    <<"c", "a", "s", "e">>, <<"d", "e", "f", "a", "u", "l", "t">>, <<"d", "o">>,
    <<"b", "r", "e", "a", "k">>, <<"c", "o", "n", "t", "i", "n", "u", "e">>,
    <<"r", "e", "t", "u", "r", "n">>, <<"i", "n", "s", "t", "a", "n", "c", "e", "o", "f">>,
    <<"s", "t", "a", "t", "i", "c">>, <<"f", "i", "n", "a", "l">>,
    <<"s", "u", "p", "e", "r">>, <<"t", "h", "i", "s">>, <<"n", "a", "t", "i", "v", "e">>,
    <<"s", "y", "n", "c", "h", "r", "o", "n", "i", "z", "e", "d">>,
    <<"v", "o", "l", "a", "t", "i", "l", "e">>, <<"c", "o", "n", "s", "t">> >>

\* filetype.rs:144-154
java_secondary_keywords ==
    <<
    <<"b", "y", "t", "e">>, <<"b", "o", "o", "l", "e", "a", "n">>, <<"c", "h", "a", "r">>,
    <<"s", "h", "o", "r", "t">>, <<"i", "n", "t">>, <<"f", "l", "o", "a", "t">>,
    <<"l", "o", "n", "g">>, <<"d", "o", "u", "b", "l", "e">>, <<"O", "b", "j", "e", "c", "t">> >>

\* str::ends_with
ends_with(s, suffix) ==
    Len(s) >= Len(suffix) /\ SubSeq(s, Len(s) - Len(suffix) + 1, Len(s)) = suffix

rust_options ==
    [numbers |-> TRUE, strings |-> TRUE, characters |-> TRUE, comments |-> TRUE,
     multiple_comments |-> TRUE, primary_keywords |-> rust_primary_keywords,
     secondary_keywords |-> rust_secondary_keywords]

java_options ==
    [numbers |-> TRUE, strings |-> TRUE, characters |-> TRUE, comments |-> TRUE,
     multiple_comments |-> TRUE, primary_keywords |-> java_primary_keywords,
     secondary_keywords |-> java_secondary_keywords]

\* FileType::from that falls back to the Rust profile
FileType_from_fallback_rust(name) ==
    IF ends_with(name, <<".", "j", "a", "v", "a">>) THEN [name |-> "Java"]
    ELSE [name |-> "Rust"]

FileType_from(name) ==
    IF ends_with(name, <<".", "r", "s">>) THEN [name |-> "Rust"]
    ELSE IF ends_with(name, <<".", "j", "a", "v", "a">>) THEN [name |-> "Java"]
    ELSE FileType_default

highlighting_options(ft) ==
    IF ft.name = "Rust" THEN rust_options
    ELSE IF ft.name = "Java" THEN java_options
    ELSE IF ft.name = "no filetype" THEN HighlightingOptions_default
    ELSE ft.hl_opts

(***************************************************************************)
(* SpecHl: rows built with Row::from and highlighted, one at a time        *)
(* (Row::highlight) or all of them (Document::highlight), under a          *)
(* HighlightingOptions value.                                              *)
(***************************************************************************)
HlAlphabet == {"\"", "1", "a", " ", "'", "/"}

\* the lines of the examples of spec.md section 8
BlockCommentLines == <<<<"/", "*", " ", "a">>, <<"b", " ", "*", "/", " ", "c">>, <<"d">>>>
Forever == <<"f", "o", "r", "e", "v", "e", "r">>
ForParen == <<"f", "o", "r", " ", "(", "i", ")">>
Abab == <<"a", "b", "a", "b">>
ForWord == <<"f", "o", "r">>

\* further lines: a character literal, an escaped one, a closed and an open
\* string, a line comment, numbers, a keyword between separators
MoreLines ==
    {<<"'", "a", "'", " ", "a">>, <<"'", "\\", "n", "'">>, <<"\"", "a", "\"", " ", "1">>, <<"a", " ", "\"", "a", "1">>,
     <<"a", " ", "/", "/", " ", "a">>, <<"1", ".", "1", " ", "a", "1">>, <<"(", "f", "o", "r", ")">>}

ExampleDocs ==
    {BlockCommentLines, <<Forever>>, <<ForParen>>, <<Abab>>} \cup {<<l>> : l \in MoreLines}

\* FileTypes with every combination of classes and two short keyword lists
SmallOptions ==
    {[name |-> "custom",
      hl_opts |-> [numbers |-> n, strings |-> s, characters |-> ch, comments |-> co,
                   multiple_comments |-> co,
                   primary_keywords |-> <<<<"a">>, <<"a", "1">>, ForWord>>,
                   secondary_keywords |-> <<<<"a", "a">>>>]] :
        n \in BOOLEAN, s \in BOOLEAN, ch \in BOOLEAN, co \in BOOLEAN}

\* the FileTypes FileType::from gives for x.rs, x.java and x
ProfileOptions ==
    {FileType_from(n) : n \in {<<"x", ".", "r", "s">>, <<"x", ".", "j", "a", "v", "a">>, <<"x">>}}

HlWords == {None, Some(<<>>), Some(<<"a">>), Some(<<"a", "b">>)}

InitHl ==
    /\ \/ /\ hrows \in {<<Row_from(s)>> : s \in Strings(HlAlphabet, MaxHlLen)}
          /\ hopts \in SmallOptions \cup {FileType_default}
       \/ /\ hrows \in {[i \in 1..Len(d) |-> Row_from(d[i])] : d \in ExampleDocs}
          /\ hopts \in SmallOptions \cup ProfileOptions
    /\ hcall = None
    /\ RowIdle /\ DocIdle /\ EdIdle

\* hrows[i].highlight(&hopts, word)
HlRow(i, word) ==
    /\ hrows' = [hrows EXCEPT ![i] = Row_highlight(@, highlighting_options(hopts), word)]
    /\ hcall' = Some([kind |-> "row", i |-> i, word |-> word])
    /\ UNCHANGED <<edVars, hopts, rowVars, docVars>>

\* Document::highlight(word) over hrows with the options hopts
HlDocument(word) ==
    /\ hrows' = [i \in 1..Len(hrows) |-> Row_highlight(hrows[i], highlighting_options(hopts), word)]
    /\ hcall' = Some([kind |-> "document", i |-> 0, word |-> word])
    /\ UNCHANGED <<edVars, hopts, rowVars, docVars>>

NextHl ==
    \/ \E i \in 1..Len(hrows), word \in HlWords : HlRow(i, word)
    \/ \E word \in HlWords : HlDocument(word)

SpecHl == InitHl /\ [][NextHl]_vars

\* the last call highlighted row i
Highlighted(i) ==
    /\ hcall # None
    /\ i \in 1..Len(hrows)
    /\ hcall[1].kind = "document" \/ hcall[1].i = i

Strs(rs) == [i \in 1..Len(rs) |-> rs[i].string]

(***************************************************************************)
(* Row::render.  The String it returns is modelled as the sequence of the  *)
(* pieces pushed onto it: a scalar [c] or a colour escape sequence [fg].   *)
(***************************************************************************)
\* highlighting::Type::to_color
to_color(t) ==
    CASE t = "Number" -> <<220, 163, 163>>
      [] t = "Match" -> <<255, 0, 0>>
      [] t = "String" -> <<211, 54, 130>>
      [] t = "Character" -> <<108, 113, 196>>
      [] t = "Comment" -> <<0, 205, 0>>
      [] t = "PrimaryKeywords" -> <<181, 137, 0>>
      [] t = "SecondaryKeywords" -> <<42, 161, 152>>
      [] t = "MultipleComments" -> <<154, 255, 154>>
      [] OTHER -> <<255, 255, 255>>

\* format!("{}", termion::color::Fg(colour))
Fg(colour) == [fg |-> colour]
Scalar(c) == [c |-> c]
IsScalar(piece) == "c" \in DOMAIN piece

\* the for loop of Row::render over the clusters g[index], index < stop (0-based)
RECURSIVE render_loop(_, _, _, _, _, _)
render_loop(r, g, index, stop, current_highlighting, res) ==
    IF index >= stop THEN res
    ELSE LET c == g[index + 1][1]
             highlighting_type == IF index < Len(r.highlighting)
                                  THEN r.highlighting[index + 1] ELSE "None"
             res1 == IF highlighting_type # current_highlighting
                     THEN Append(res, Fg(to_color(highlighting_type))) ELSE res
             res2 == Append(res1, Scalar(IF c = "\t" THEN " " ELSE c))
         IN  render_loop(r, g, index + 1, stop, highlighting_type, res2)

\* Row::render with the tab pushed as it is
RECURSIVE render_loop_raw_tab(_, _, _, _, _, _)
render_loop_raw_tab(r, g, index, stop, current_highlighting, res) ==
    IF index >= stop THEN res
    ELSE LET c == g[index + 1][1]
             highlighting_type == IF index < Len(r.highlighting)
                                  THEN r.highlighting[index + 1] ELSE "None"
             res1 == IF highlighting_type # current_highlighting
                     THEN Append(res, Fg(to_color(highlighting_type))) ELSE res
         IN  render_loop_raw_tab(r, g, index + 1, stop, highlighting_type,
                                 Append(res1, Scalar(c)))

Row_render_raw_tab(r, start, end) ==
    LET end1 == IF end < ByteLen(r.string) THEN end ELSE ByteLen(r.string)
        start1 == IF start < end1 THEN start ELSE end1
        g == graphemes(r.string)
        stop == IF end1 < Len(g) THEN end1 ELSE Len(g)
    IN  render_loop_raw_tab(r, g, start1, stop, "None", <<>>) \o <<Fg("Reset")>>

Row_render(r, start, end) ==
    LET end1 == IF end < ByteLen(r.string) THEN end ELSE ByteLen(r.string)
        start1 == IF start < end1 THEN start ELSE end1
        g == graphemes(r.string)
        \* .skip(start).take(end - start) over the enumerated clusters
        stop == IF end1 < Len(g) THEN end1 ELSE Len(g)
    IN  render_loop(r, g, start1, stop, "None", <<>>) \o <<Fg("Reset")>>

(***************************************************************************)
(* Document (src/src/document.rs).  A Document is the record of its        *)
(* fields; a Position is [x, y].                                           *)
(***************************************************************************)
Document_default ==
    [rows |-> <<>>, filename |-> None, dirty |-> FALSE, filetype |-> FileType_default]

\* a line without its trailing "\r" (str::lines)
strip_cr(l) == IF l # <<>> /\ l[Len(l)] = "\r" THEN SubSeq(l, 1, Len(l) - 1) ELSE l

\* str::lines: the lines of contents, split at "\n", without a final empty line
RECURSIVE str_lines(_)
str_lines(contents) ==
    IF contents = <<>> THEN <<>>
    ELSE LET nl == {k \in 1..Len(contents) : contents[k] = "\n"}
         IN  IF nl = {} THEN <<strip_cr(contents)>>
             ELSE <<strip_cr(SubSeq(contents, 1, Minimum(nl) - 1))>>
                  \o str_lines(SubSeq(contents, Minimum(nl) + 1, Len(contents)))

\* Document::open on a readable file called name that holds contents
Document_open(name, contents) ==
    LET ft == FileType_from(name)
        ls == str_lines(contents)
    IN  [rows |-> [i \in 1..Len(ls) |->
                      Row_highlight(Row_from(ls[i]), highlighting_options(ft), None)],
         filename |-> Some(name), dirty |-> FALSE, filetype |-> ft]

Document_len(d) == Len(d.rows)

is_dirty(d) == d.dirty

\* Vec::insert(index, e) and Vec::remove(index), 0-based
vec_insert(v, index, e) == SubSeq(v, 1, index) \o <<e>> \o SubSeq(v, index + 1, Len(v))
vec_remove(v, index) == SubSeq(v, 1, index) \o SubSeq(v, index + 2, Len(v))

\* insert_newline that puts the new row at index pos.y, above the split row
insert_newline_above(d, pos) ==
    IF pos.y > Len(d.rows) THEN d
    ELSE IF pos.y = Len(d.rows) THEN [d EXCEPT !.rows = Append(@, Row_default)]
    ELSE LET opts == highlighting_options(d.filetype)
             sp == Row_split(d.rows[pos.y + 1], pos.x)
             current_row == Row_highlight(sp.row, opts, None)
             new_row == Row_highlight(sp.split, opts, None)
         IN  [d EXCEPT !.rows = vec_insert([@ EXCEPT ![pos.y + 1] = current_row],
                                           pos.y, new_row)]

insert_newline(d, pos) ==
    IF pos.y > Len(d.rows) THEN d
    ELSE IF pos.y = Len(d.rows) THEN [d EXCEPT !.rows = Append(@, Row_default)]
    ELSE LET opts == highlighting_options(d.filetype)
             sp == Row_split(d.rows[pos.y + 1], pos.x)
             current_row == Row_highlight(sp.row, opts, None)
             new_row == Row_highlight(sp.split, opts, None)
         IN  [d EXCEPT !.rows = vec_insert([@ EXCEPT ![pos.y + 1] = current_row],
                                           pos.y + 1, new_row)]

\* Document::insert without the branch for '\n'
Document_insert_no_newline(d, position, c) ==
    IF position.y > Len(d.rows) THEN d
    ELSE LET d1 == [d EXCEPT !.dirty = TRUE]
             opts == highlighting_options(d.filetype)
         IN  IF position.y = Len(d.rows)
             THEN [d1 EXCEPT !.rows =
                      Append(@, Row_highlight(Row_insert(Row_default, 0, c), opts, None))]
             ELSE [d1 EXCEPT !.rows[position.y + 1] =
                      Row_highlight(Row_insert(@, position.x, c), opts, None)]

Document_insert(d, position, c) ==
    IF position.y > Len(d.rows) THEN d
    ELSE LET d1 == [d EXCEPT !.dirty = TRUE]
             opts == highlighting_options(d.filetype)
         IN  IF c = "\n" THEN insert_newline(d1, position)
             ELSE IF position.y = Len(d.rows)
             THEN [d1 EXCEPT !.rows =
                      Append(@, Row_highlight(Row_insert(Row_default, 0, c), opts, None))]
             ELSE [d1 EXCEPT !.rows[position.y + 1] =
                      Row_highlight(Row_insert(@, position.x, c), opts, None)]

\* Document::delete that sets dirty before its range check
Document_delete_dirty_first(d, pos) ==
    LET d1 == [d EXCEPT !.dirty = TRUE]
        opts == highlighting_options(d.filetype)
    IN  IF pos.y >= Len(d.rows) THEN d1
        ELSE IF pos.x = Row_len(d.rows[pos.y + 1]) /\ pos.y + 1 < Document_len(d)
        THEN LET next_row == d.rows[pos.y + 2]
                 removed == vec_remove(d.rows, pos.y + 1)
             IN  [d1 EXCEPT !.rows = [removed EXCEPT ![pos.y + 1] =
                     Row_highlight(Row_append(@, next_row), opts, None)]]
        ELSE [d1 EXCEPT !.rows[pos.y + 1] =
                 Row_highlight(Row_delete(@, pos.x), opts, None)]

Document_delete(d, pos) ==
    IF pos.y >= Len(d.rows) THEN d
    ELSE LET d1 == [d EXCEPT !.dirty = TRUE]
             opts == highlighting_options(d.filetype)
         IN  IF pos.x = Row_len(d.rows[pos.y + 1]) /\ pos.y + 1 < Document_len(d)
             THEN LET next_row == d.rows[pos.y + 2]
                      removed == vec_remove(d.rows, pos.y + 1)
                  IN  [d1 EXCEPT !.rows = [removed EXCEPT ![pos.y + 1] =
                          Row_highlight(Row_append(@, next_row), opts, None)]]
             ELSE [d1 EXCEPT !.rows[pos.y + 1] =
                      Row_highlight(Row_delete(@, pos.x), opts, None)]

\* the for loop of Document::search with n iterations left;
\* position = [x, y] is the place the next Row::search starts from
RECURSIVE search_loop(_, _, _, _, _)
search_loop(d, query, position, direction, n) ==
    IF n = 0 THEN None
    ELSE IF position.y >= Len(d.rows) THEN None
    ELSE LET found == Row_search(d.rows[position.y + 1], query, position.x, direction)
         IN  IF found # None THEN Some([x |-> found[1], y |-> position.y])
             ELSE IF direction = "Forward"
             THEN search_loop(d, query, [x |-> 0, y |-> position.y + 1], direction, n - 1)
             ELSE LET y1 == saturating_sub(position.y, 1)
                  IN  search_loop(d, query, [x |-> Row_len(d.rows[y1 + 1]), y |-> y1],
                                  direction, n - 1)

\* the number of rows the for loop of Document::search hands to Row::search
RECURSIVE search_visits(_, _, _, _, _)
search_visits(d, query, position, direction, n) ==
    IF n = 0 THEN 0
    ELSE IF position.y >= Len(d.rows) THEN 0
    ELSE LET found == Row_search(d.rows[position.y + 1], query, position.x, direction)
         IN  IF found # None THEN 1
             ELSE IF direction = "Forward"
             THEN 1 + search_visits(d, query, [x |-> 0, y |-> position.y + 1], direction, n - 1)
             ELSE LET y1 == saturating_sub(position.y, 1)
                  IN  1 + search_visits(d, query, [x |-> Row_len(d.rows[y1 + 1]), y |-> y1],
                                        direction, n - 1)

\* the rows Document::search(query, after, direction) visits
Document_search_visits(d, query, after, direction) ==
    IF after.y >= Len(d.rows) THEN 0
    ELSE LET start == IF direction = "Forward" THEN after.y ELSE 0
             end == IF direction = "Forward" THEN Len(d.rows) ELSE after.y + 1
         IN  search_visits(d, query, [x |-> after.x, y |-> after.y], direction, end - start)

\* Document::search: None or Some(Position)
Document_search(d, query, after, direction) ==
    IF after.y >= Len(d.rows) THEN None
    ELSE LET start == IF direction = "Forward" THEN after.y ELSE 0
             end == IF direction = "Forward" THEN Len(d.rows) ELSE after.y + 1
         IN  search_loop(d, query, [x |-> after.x, y |-> after.y], direction, end - start)

\* save_to_disk that marks the Document dirty when a file operation fails
save_to_disk_dirty_on_err(d, fail) ==
    IF d.filename = None THEN [doc |-> d, res |-> "Ok"]
    ELSE IF fail = Some(0) THEN [doc |-> [d EXCEPT !.dirty = TRUE], res |-> "Err"]
    ELSE LET ft == FileType_from(d.filename[1])
             done == IF fail = None THEN Len(d.rows) ELSE fail[1] - 1
             rs == [i \in 1..Len(d.rows) |->
                       IF i <= done
                       THEN Row_highlight(d.rows[i], highlighting_options(ft), None)
                       ELSE d.rows[i]]
         IN  IF fail = None
             THEN [doc |-> [d EXCEPT !.filetype = ft, !.rows = rs, !.dirty = FALSE],
                   res |-> "Ok"]
             ELSE [doc |-> [d EXCEPT !.filetype = ft, !.rows = rs, !.dirty = TRUE],
                   res |-> "Err"]

\* save_to_disk that clears dirty before the file is created
save_to_disk_clear_first(d, fail) ==
    IF d.filename = None THEN [doc |-> d, res |-> "Ok"]
    ELSE IF fail = Some(0) THEN [doc |-> [d EXCEPT !.dirty = FALSE], res |-> "Err"]
    ELSE LET ft == FileType_from(d.filename[1])
             done == IF fail = None THEN Len(d.rows) ELSE fail[1] - 1
             rs == [i \in 1..Len(d.rows) |->
                       IF i <= done
                       THEN Row_highlight(d.rows[i], highlighting_options(ft), None)
                       ELSE d.rows[i]]
         IN  [doc |-> [d EXCEPT !.filetype = ft, !.rows = rs, !.dirty = FALSE],
              res |-> IF fail = None THEN "Ok" ELSE "Err"]

\* fail: None when every file operation succeeds, Some(0) when File::create
\* fails, Some(k) when a write_all for row k (1-based) fails.
\* The result is the Document afterwards and Ok or Err.
save_to_disk(d, fail) ==
    IF d.filename = None THEN [doc |-> d, res |-> "Ok"]
    ELSE IF fail = Some(0) THEN [doc |-> d, res |-> "Err"]
    ELSE LET ft == FileType_from(d.filename[1])
             done == IF fail = None THEN Len(d.rows) ELSE fail[1] - 1
             rs == [i \in 1..Len(d.rows) |->
                       IF i <= done
                       THEN Row_highlight(d.rows[i], highlighting_options(ft), None)
                       ELSE d.rows[i]]
         IN  IF fail = None
             THEN [doc |-> [d EXCEPT !.filetype = ft, !.rows = rs, !.dirty = FALSE],
                   res |-> "Ok"]
             ELSE [doc |-> [d EXCEPT !.filetype = ft, !.rows = rs], res |-> "Err"]

(***************************************************************************)
(* SpecDoc: a Document, empty or opened from a file, under insert, delete  *)
(* and save_to_disk; the editor names an unnamed Document before it saves. *)
(***************************************************************************)
DocAlphabet == {"1", "CM"}
FileNames == {<<"x">>}

Doc == [rows |-> rows, filename |-> filename, dirty |-> dirty, filetype |-> filetype]

SetDoc(d) ==
    /\ rows' = d.rows
    /\ filename' = d.filename
    /\ dirty' = d.dirty
    /\ filetype' = d.filetype

RECURSIVE TotalChars(_)
TotalChars(rs) == IF rs = <<>> THEN 0 ELSE Len(Head(rs).string) + TotalChars(Tail(rs))

\* a call, its arguments and its result, with the line count and the len() of
\* line y as they were when it was made
Call(op, x, y, c, res) ==
    [op |-> op, x |-> x, y |-> y, c |-> c, res |-> res, lines |-> Len(rows),
     len |-> IF y < Len(rows) THEN Row_len(rows[y + 1]) ELSE 0]

InitDoc ==
    /\ \E d \in {Document_default} \cup
                {Document_open(n, t) : n \in FileNames,
                                       t \in Strings(DocAlphabet \cup {"\n"}, MaxDocChars)} :
          /\ rows = d.rows
          /\ filename = d.filename
          /\ dirty = d.dirty
          /\ filetype = d.filetype
    /\ last = None
    /\ RowIdle /\ HlIdle /\ EdIdle

\* the cached len of every row stays within the bound of the model
LenBounded(rs) == \A i \in 1..Len(rs) : rs[i].len <= MaxDocChars + 1

DocInsert(x, y, c) ==
    /\ TotalChars(rows) + Len(rows) <= MaxDocChars
    /\ SetDoc(Document_insert(Doc, [x |-> x, y |-> y], c))
    /\ LenBounded(rows')
    /\ last' = Some(Call("insert", x, y, c, "Ok"))
    /\ UNCHANGED <<edVars, rowVars, hlVars>>

DocDelete(x, y) ==
    /\ SetDoc(Document_delete(Doc, [x |-> x, y |-> y]))
    /\ LenBounded(rows')
    /\ last' = Some(Call("delete", x, y, "", "Ok"))
    /\ UNCHANGED <<edVars, rowVars, hlVars>>

\* Editor::save: self.document.filename = new_filename when there is none
SetFilename(name) ==
    /\ filename = None
    /\ filename' = Some(name)
    /\ last' = Some(Call("filename", 0, 0, "", "Ok"))
    /\ UNCHANGED <<edVars, rows, dirty, filetype, rowVars, hlVars>>

SaveToDisk(fail) ==
    /\ filename = None => fail = None
    /\ LET r == save_to_disk(Doc, fail)
       IN  /\ SetDoc(r.doc)
           /\ last' = Some(Call("save", 0, 0, "", r.res))
    /\ UNCHANGED <<edVars, rowVars, hlVars>>

NextDoc ==
    \/ \E x \in 0..MaxDocChars, y \in 0..(Len(rows) + 1), c \in DocAlphabet \cup {"\n"} :
          DocInsert(x, y, c)
    \/ \E x \in 0..MaxDocChars, y \in 0..Len(rows) : DocDelete(x, y)
    \/ \E name \in FileNames : SetFilename(name)
    \/ \E fail \in {None} \cup {Some(k) : k \in 0..Len(rows)} : SaveToDisk(fail)

SpecDoc == InitDoc /\ [][NextDoc]_vars

(***************************************************************************)
(* SpecSearch: a Document, opened or edited, and one Document::search on   *)
(* it.  search takes &self and leaves the Document as it was, so a         *)
(* behaviour is followed up to its first search.                           *)
(***************************************************************************)
SearchAlphabet == {"a", "CM"}

\* files with a combining mark after a tab, and with the same word on two lines
TabMarkFile == <<"a", "CM", "\t", "CM">>
TwoLineFile == <<"b", "a", "\n", "a", "b", "a">>
SearchFiles == {TabMarkFile, TwoLineFile}

Queries == {<<>>, <<"a">>, <<"CM">>, <<"a", "CM">>}
Directions == {"Forward", "Backward"}

SearchCall(query, x, y, direction, res) ==
    [op |-> "search", x |-> x, y |-> y, c |-> query, res |-> res, lines |-> Len(rows),
     len |-> IF y < Len(rows) THEN Row_len(rows[y + 1]) ELSE 0, direction |-> direction]

SearchCalled(call) == call # None /\ call[1].op = "search"

\* an insert or delete at line y, with the line count as it was when it was made
EditCall(op, y) == [op |-> op, y |-> y, lines |-> Len(rows)]

InitSearch ==
    /\ \E d \in {Document_default} \cup
                {Document_open(<<"x">>, t) :
                    t \in Strings(SearchAlphabet \cup {"\n"}, MaxDocChars) \cup SearchFiles} :
          /\ rows = d.rows
          /\ filename = d.filename
          /\ dirty = d.dirty
          /\ filetype = d.filetype
    /\ last = None
    /\ RowIdle /\ HlIdle /\ EdIdle

EditInsert(x, y, c) ==
    /\ TotalChars(rows) + Len(rows) <= MaxDocChars
    /\ SetDoc(Document_insert(Doc, [x |-> x, y |-> y], c))
    /\ LenBounded(rows')
    /\ last' = Some(EditCall("insert", y))
    /\ UNCHANGED <<edVars, rowVars, hlVars>>

EditDelete(x, y) ==
    /\ SetDoc(Document_delete(Doc, [x |-> x, y |-> y]))
    /\ LenBounded(rows')
    /\ last' = Some(EditCall("delete", y))
    /\ UNCHANGED <<edVars, rowVars, hlVars>>

DocSearch(query, x, y, direction) ==
    /\ last' = Some(SearchCall(query, x, y, direction,
                               Document_search(Doc, query, [x |-> x, y |-> y], direction)))
    /\ UNCHANGED <<edVars, rows, dirty, filename, filetype, rowVars, hlVars>>

NextSearch ==
    /\ ~SearchCalled(last)
    /\ \/ \E x \in 0..MaxDocChars, y \in 0..(Len(rows) + 1), c \in SearchAlphabet \cup {"\n"} :
             EditInsert(x, y, c)
       \/ \E x \in 0..MaxDocChars, y \in 0..Len(rows) : EditDelete(x, y)
       \/ \E query \in Queries, x \in 0..(MaxDocChars + 1), y \in 0..Len(rows),
             direction \in Directions : DocSearch(query, x, y, direction)

SpecSearch == InitSearch /\ [][NextSearch]_vars

(***************************************************************************)
(* SpecRender: a Row, as built by Row::from or highlighted, and the        *)
(* windows of it that Row::render shows.                                   *)
(***************************************************************************)
RenderAlphabet == {"a", "1", "\t", "CM"}

\* a FileType that has numbers highlighted
NumbersOnly ==
    [name |-> "custom",
     hl_opts |-> [HighlightingOptions_default EXCEPT !.numbers = TRUE]]

RenderCall(start, end, out) == [op |-> "render", start |-> start, end |-> end, out |-> out]

InitRender ==
    /\ row \in {Row_from(s) : s \in Strings(RenderAlphabet, MaxLen)}
    /\ tail = Row_default
    /\ hist = <<>>
    /\ HlIdle /\ DocIdle /\ EdIdle

RenderHighlight ==
    /\ row' = Row_highlight(row, highlighting_options(NumbersOnly), None)
    /\ hist' = <<>>
    /\ UNCHANGED <<edVars, tail, hlVars, docVars>>

RowRender(start, end) ==
    /\ hist' = <<RenderCall(start, end, Row_render(row, start, end))>>
    /\ UNCHANGED <<edVars, row, tail, hlVars, docVars>>

NextRender ==
    \/ RenderHighlight
    \/ \E start \in 0..MaxPos, end \in 0..MaxPos : RowRender(start, end)

SpecRender == InitRender /\ [][NextRender]_vars

\* the options in use in SpecHl
HOpts == highlighting_options(hopts)

KeywordLabels == {"PrimaryKeywords", "SecondaryKeywords"}
CommentLabels == {"Comment", "MultipleComments"}

\* C4: after Row::highlight has run on a Row, the number of labels equals the
\* number of characters (scalar values) of its content, for every content and
\* every configuration.
C4_LabelsMatchChars ==
    \A i \in 1..Len(hrows) :
        Highlighted(i) => Len(hrows[i].highlighting) = Len(hrows[i].string)

\* C5: with block comments enabled, highlighting the lines "/* a", "b */ c", "d"
\* labels line 0 as comment from the "/*" to its end, line 1 as comment up
\* through "*/" and None for " c", and nothing in line 2 as comment.
C5_BlockCommentCarry ==
    (/\ hcall # None /\ hcall[1].kind = "document" /\ hcall[1].word = None
     /\ Strs(hrows) = BlockCommentLines
     /\ HOpts.multiple_comments)
    => /\ \A k \in 1..4 : hrows[1].highlighting[k] \in CommentLabels
       /\ \A k \in 1..4 : hrows[2].highlighting[k] \in CommentLabels
       /\ \A k \in 5..6 : hrows[2].highlighting[k] = "None"
       /\ \A k \in 1..Len(hrows[3].highlighting) : hrows[3].highlighting[k] \notin CommentLabels

\* the starts of the occurrences of word in r found by scanning left to right,
\* each search resuming at the end of the previous match
RECURSIVE MatchStarts(_, _, _)
MatchStarts(r, word, from) ==
    LET m == Row_search(r, word, from, "Forward")
    IN  IF m = None THEN {}
        ELSE {m[1]} \cup MatchStarts(r, word, m[1] + GraphemeCount(word))

\* C6: after Row::highlight(opts, Some(word)) with a non-empty word, every
\* occurrence of word found by scanning left to right has all of its positions
\* labeled Match, the second and later occurrences as well as the first.
C6_EveryOccurrenceIsMatch ==
    \A i \in 1..Len(hrows) :
        (Highlighted(i) /\ hcall[1].word # None /\ hcall[1].word # Some(<<>>))
        => \A m \in MatchStarts(hrows[i], hcall[1].word[1], 0) :
               \A k \in m..(m + GraphemeCount(hcall[1].word[1]) - 1) :
                   hrows[i].highlighting[k + 1] = "Match"

\* label positions [a, b] (1-based) are a maximal run of label t in hl
IsRun(hl, t, a, b) ==
    /\ a <= b
    /\ \A k \in a..b : hl[k] = t
    /\ a = 1 \/ hl[a - 1] # t
    /\ b = Len(hl) \/ hl[b + 1] # t

\* C7: a keyword is labeled at position i only if the character before i is a
\* separator or i is the line start, and the character right after the word is
\* a separator or the word ends the line; with primary keyword "for", "forever"
\* gets no keyword label and in "for (i)" exactly the first three characters
\* are labeled primary keyword.
C7_KeywordBoundary ==
    \A i \in 1..Len(hrows) :
        (Highlighted(i) /\ hcall[1].word = None)
        => LET chars == hrows[i].string
               hl == hrows[i].highlighting
               has_for == \E k \in 1..Len(HOpts.primary_keywords) :
                              HOpts.primary_keywords[k] = ForWord
           IN  /\ \A t \in KeywordLabels : \A a \in 1..Len(hl), b \in 1..Len(hl) :
                      IsRun(hl, t, a, b)
                      => /\ b <= Len(chars)
                         /\ a = 1 \/ is_separators(chars[a - 1])
                         /\ b = Len(chars) \/ is_separators(chars[b + 1])
               /\ (has_for /\ chars = Forever)
                      => \A k \in 1..Len(hl) : hl[k] \notin KeywordLabels
               /\ (has_for /\ chars = ForParen)
                      => \A k \in 1..Len(hl) : (hl[k] = "PrimaryKeywords") <=> (k <= 3)

\* "for (i)" was highlighted under the Rust profile and "for" is labeled
C7_Witness ==
    /\ Highlighted(1) /\ hcall[1].word = None
    /\ hopts.name = "Rust"
    /\ hrows[1].string = ForParen
    /\ IsRun(hrows[1].highlighting, "PrimaryKeywords", 1, 3)

\* the last call was Document::delete at (x, y)
DeleteCalled(call) == call # None /\ call[1].op = "delete"

\* C8: in any document reached by Document insert and delete operations,
\* Document::delete at (x, y), where x is the number of grapheme clusters of
\* line y and line y+1 exists, removes the line break: the line count goes
\* down by exactly 1, line y becomes the old line y followed by the old line
\* y+1, and its len() is the sum of the two original len().
C8_DeleteAtEolMerges ==
    [][(/\ DeleteCalled(last')
        /\ last'[1].y + 1 < Len(rows)
        /\ last'[1].x = GraphemeCount(rows[last'[1].y + 1].string))
       => LET y == last'[1].y
          IN  /\ Len(rows') = Len(rows) - 1
              /\ rows'[y + 1].string = rows[y + 1].string \o rows[y + 2].string
              /\ rows'[y + 1].len = rows[y + 1].len + rows[y + 2].len]_vars

\* C9: Document::delete at the end-of-line position of the last line
\* (y = line count - 1, x = that line's len()) is a no-op: the line count,
\* every line's content and every line's len() are unchanged.
C9_DeleteAtEndOfLastLine ==
    [][(/\ DeleteCalled(last')
        /\ last'[1].y + 1 = Len(rows)
        /\ last'[1].x = Row_len(rows[Len(rows)]))
       => /\ Len(rows') = Len(rows)
          /\ \A i \in 1..Len(rows) : /\ rows'[i].string = rows[i].string
                                     /\ rows'[i].len = rows[i].len]_vars

\* Document::delete has just been called at the end of a non-empty last line
C9_Witness ==
    /\ DeleteCalled(last)
    /\ last[1].y + 1 = last[1].lines
    /\ last[1].x = last[1].len
    /\ last[1].len > 0
    /\ rows[Len(rows)].string # <<>>

\* the call made by this step is an edit that Document carries out
EditCalled(call, lines) ==
    /\ call # None
    /\ \/ call[1].op = "insert" /\ call[1].y <= lines
       \/ call[1].op = "delete" /\ call[1].y < lines

\* the call made by this step is a save_to_disk that succeeded
SaveSucceeded(call) == call # None /\ call[1].op = "save" /\ call[1].res = "Ok"

\* C10: after any Document::insert with line index <= line count or
\* Document::delete with line index < line count is_dirty() is true, and it
\* stays true through every further edit and every failed save until a
\* save_to_disk call succeeds.
C10_DirtyStateMachine ==
    [][/\ EditCalled(last', Len(rows)) => is_dirty(Doc)'
       /\ (is_dirty(Doc) /\ ~SaveSucceeded(last')) => is_dirty(Doc)']_vars

\* a save_to_disk has just failed on an edited Document, which is still dirty
C10_Witness ==
    /\ last # None
    /\ last[1].op = "save"
    /\ last[1].res = "Err"
    /\ filename # None
    /\ is_dirty(Doc)

\* C11: is_dirty() is false from load (or from the last successful save) until
\* the first insert or delete that changes the lines: a call to
\* Document::insert or Document::delete that leaves the line count and every
\* line's content unchanged does not make the document dirty.
C11_UnchangedStaysClean ==
    [][(/\ ~is_dirty(Doc)
        /\ last' # None
        /\ last'[1].op \in {"insert", "delete"}
        /\ Strs(rows') = Strs(rows))
       => ~is_dirty(Doc)']_vars

\* the call made by this step is a save_to_disk that returned an error
SaveFailed(call) == call # None /\ call[1].op = "save" /\ call[1].res = "Err"

\* C12: when save_to_disk returns an error (the file cannot be created or a
\* write fails part-way), the dirty flag and the content of every line are
\* what they were before the call; dirty is cleared only by a save that
\* succeeds.
C12_FailedSaveKeepsState ==
    [][/\ SaveFailed(last') => /\ is_dirty(Doc)' = is_dirty(Doc)
                               /\ Strs(rows') = Strs(rows)
       /\ (is_dirty(Doc) /\ ~is_dirty(Doc)') => SaveSucceeded(last')]_vars

\* a save_to_disk of a named Document with a line of text has just failed
C12_Witness ==
    /\ SaveFailed(last)
    /\ filename # None
    /\ \E i \in 1..Len(rows) : rows[i].string # <<>>

\* C17: in every document reached from Document::open or the empty default
\* document by Document::insert ('\n' included) and Document::delete, no
\* line's content contains a newline character.
C17_NoNewlineInLine ==
    \A i \in 1..Len(rows) : \A k \in 1..Len(rows[i].string) : rows[i].string[k] # "\n"

\* '\n' has just been inserted into a line that existed
C17_Witness ==
    /\ last # None
    /\ last[1].op = "insert"
    /\ last[1].c = "\n"
    /\ last[1].y < last[1].lines
    /\ Len(rows) = last[1].lines + 1

\* C13: Document::search and Row::search return None for the empty query, for
\* every document, every start position and both directions.
C13_EmptyQueryFindsNothing ==
    /\ (SearchCalled(last) /\ last[1].c = <<>>) => last[1].res = None
    /\ \A i \in 1..Len(rows), after \in 0..(MaxDocChars + 1), direction \in Directions :
          Row_search(rows[i], <<>>, after, direction) = None

\* the empty query has just been searched from a place inside a line of text
C13_Witness ==
    /\ SearchCalled(last)
    /\ last[1].c = <<>>
    /\ last[1].y < Len(rows)
    /\ last[1].x < GraphemeCount(rows[last[1].y + 1].string)

\* query occurs in line at column k: the content from the start of the k-th
\* grapheme cluster (0-based) on begins with query
OccursAt(line, k, query) ==
    LET g == graphemes(line)
        rest == Flatten(SubSeq(g, k + 1, Len(g)))
    IN  /\ k < Len(g)
        /\ Len(rest) >= Len(query)
        /\ SubSeq(rest, 1, Len(query)) = query

\* the occurrences <<line, column>> of query at or after (x, y) in document order
ForwardHits(rs, query, x, y) ==
    {p \in (y..(Len(rs) - 1)) \X (0..(MaxDocChars + 4)) :
        /\ p[1] = y => p[2] >= x
        /\ OccursAt(rs[p[1] + 1].string, p[2], query)}

Earliest(H) ==
    CHOOSE p \in H : \A q \in H : p[1] < q[1] \/ (p[1] = q[1] /\ p[2] <= q[2])

\* C14: forward Document::search from (x, y) returns the earliest occurrence
\* of a non-empty query at or after (x, y) in document order: line y from
\* column x, later lines from column 0; if there is such an occurrence the
\* result is not None.
C14_ForwardFindsEarliest ==
    (/\ SearchCalled(last)
     /\ last[1].direction = "Forward"
     /\ last[1].c # <<>>
     /\ last[1].y < Len(rows))
    => LET H == ForwardHits(rows, last[1].c, last[1].x, last[1].y)
       IN  H # {} => last[1].res = Some([x |-> Earliest(H)[2], y |-> Earliest(H)[1]])

\* C15: backward Document::search started from a position on line 0 returns
\* None, for every non-empty query and every start column.
C15_BackwardFromLineZero ==
    (/\ SearchCalled(last)
     /\ last[1].direction = "Backward"
     /\ last[1].c # <<>>
     /\ last[1].y = 0)
    => last[1].res = None

\* C18: Document::insert with line index > line count and Document::delete
\* with line index >= line count leave the line count, every line's content
\* and the dirty flag unchanged, and Document::search with start line index
\* >= line count returns None.
C18_OutOfRangeIsNoOp ==
    [][/\ (/\ last' # None
           /\ \/ last'[1].op = "insert" /\ last'[1].y > Len(rows)
              \/ last'[1].op = "delete" /\ last'[1].y >= Len(rows))
          => /\ Strs(rows') = Strs(rows)
             /\ is_dirty(Doc)' = is_dirty(Doc)
       /\ (SearchCalled(last') /\ last'[1].y >= Len(rows)) => last'[1].res = None]_vars

\* Document::delete has just been called past the last line of a clean
\* Document that has lines
C18_Witness ==
    /\ DeleteCalled(last)
    /\ last[1].y >= last[1].lines
    /\ last[1].lines > 0
    /\ ~is_dirty(Doc)

\* the scalars among the pieces of a rendered String
Visible(out) ==
    LET shown == SelectSeq(out, IsScalar)
    IN  [i \in 1..Len(shown) |-> shown[i].c]

\* C16: Row::render(start, end) never fails and emits exactly one visible
\* character per grapheme cluster of the window
\* [min(start, end), min(end, length)), each tab shown as one space, so it
\* never shows more than end - start columns; for every start and end,
\* start > end and start > length included.
C16_RenderWindow ==
    (hist # <<>> /\ hist[1].op = "render")
    => LET g == graphemes(row.string)
           start == hist[1].start
           end == hist[1].end
           from == IF start < end THEN start ELSE end
           to == IF end < Len(g) THEN end ELSE Len(g)
           shown == Visible(hist[1].out)
       IN  /\ Len(shown) = saturating_sub(to, from)
           /\ \A i \in 1..Len(shown) :
                 shown[i] = IF g[from + i][1] = "\t" THEN " " ELSE g[from + i][1]
           /\ Len(shown) <= saturating_sub(end, start)

\* a window that holds a tab and a cluster of two scalars has been rendered
C16_Witness ==
    /\ hist # <<>>
    /\ hist[1].op = "render"
    /\ hist[1].start < hist[1].end
    /\ row.string = <<"a", "CM", "\t">>
    /\ Visible(hist[1].out) = <<"a", " ">>

\* file names whose suffix is neither .rs nor .java
UnknownNames ==
    {<<>>, <<"x">>, <<"r", "s">>, <<"x", ".", "r">>, <<".", "r", "s", "x">>,
     <<"x", ".", "R", "S">>, <<"j", "a", "v", "a">>, <<"x", ".", "j", "a", "v">>}

\* C19: for a file name whose suffix is neither .rs nor .java the profile has
\* every class disabled and both keyword lists empty, so Row::highlight with
\* no search word labels every character of every line None.
C19_UnknownSuffixAllNone ==
    /\ \A n \in UnknownNames :
          LET o == highlighting_options(FileType_from(n))
          IN  /\ ~o.numbers /\ ~o.strings /\ ~o.characters
              /\ ~o.comments /\ ~o.multiple_comments
              /\ o.primary_keywords = <<>>
              /\ o.secondary_keywords = <<>>
    /\ \A i \in 1..Len(hrows) :
          (/\ Highlighted(i)
           /\ hcall[1].word = None
           /\ hopts \in {FileType_from(n) : n \in UnknownNames})
          => hrows[i].highlighting = [k \in 1..Len(hrows[i].string) |-> "None"]

\* a line with a quote and a digit was highlighted under the profile of "x"
C19_Witness ==
    /\ Highlighted(1)
    /\ hcall[1].word = None
    /\ hopts = FileType_from(<<"x">>)
    /\ hrows[1].string = <<"\"", "1">>
    /\ hrows[1].highlighting = <<"None", "None">>

\* C20: Row::insert(pos, c) increases len() by exactly 1 for every pos and c;
\* when pos < len() the new content is the old content with c immediately
\* before the cluster at pos, and when pos >= len() c is appended at the end;
\* no other cluster is changed or reordered.
C20_InsertAddsOne ==
    (hist # <<>> /\ hist[1].op = "insert")
    => LET pre == hist[1].pre
           pos == hist[1].pos
           c == hist[1].c
           g == graphemes(pre.string)
       IN  /\ Row_len(row) = Row_len(pre) + 1
           /\ pos < Row_len(pre)
              => /\ pos < Len(g)
                 /\ row.string = Flatten(SubSeq(g, 1, pos)) \o <<c>>
                                    \o Flatten(SubSeq(g, pos + 1, Len(g)))
           /\ pos >= Row_len(pre) => row.string = pre.string \o <<c>>

\* C27: whenever save_to_disk returns Ok, is_dirty() is false immediately
\* afterwards, for every document state including a document that has no
\* filename.
C27_OkSaveMeansClean == SaveSucceeded(last) => ~is_dirty(Doc)

(***************************************************************************)
(* SpecSave: the Document of an editor started without a file: it is       *)
(* edited, named by Editor::save (here with a Rust file name) and saved.   *)
(***************************************************************************)
SaveNames == {<<"x", ".", "r", "s">>}

InitSave ==
    /\ rows = Document_default.rows
    /\ filename = Document_default.filename
    /\ dirty = Document_default.dirty
    /\ filetype = Document_default.filetype
    /\ last = None
    /\ RowIdle /\ HlIdle /\ EdIdle

NextSave ==
    \/ \E x \in 0..MaxDocChars, y \in 0..(Len(rows) + 1), c \in DocAlphabet \cup {"\n"} :
          DocInsert(x, y, c)
    \/ \E x \in 0..MaxDocChars, y \in 0..Len(rows) : DocDelete(x, y)
    \/ \E name \in SaveNames : SetFilename(name)
    \/ \E fail \in {None} \cup {Some(k) : k \in 0..Len(rows)} : SaveToDisk(fail)

SpecSave == InitSave /\ [][NextSave]_vars

\* the labels of every line are those of a highlighting pass over its content
\* under the language profile of the Document
LabelsFresh(d) ==
    \A i \in 1..Len(d.rows) :
        d.rows[i].highlighting =
            Row_highlight(d.rows[i], highlighting_options(d.filetype), None).highlighting

\* C28: a save_to_disk call that returns an error leaves the language profile
\* (filetype) and the labels of every line as they were before the call,
\* whether File::create fails or a write fails part-way through.
C28_FailedSaveKeepsProfile ==
    [][SaveFailed(last')
       => /\ filetype' = filetype
          /\ Len(rows') = Len(rows)
          /\ \A i \in 1..Len(rows) : rows'[i].highlighting = rows[i].highlighting]_vars

\* C22: after every Document::insert and Document::delete the labels of every
\* line are exactly the labels a highlighting pass produces for the current
\* content of that line under the language profile of the document.
C22_LabelsFreshAfterEdit ==
    (last # None /\ last[1].op \in {"insert", "delete"}) => LabelsFresh(Doc)

(***************************************************************************)
(* SpecEdit: a Document opened from a file of up to MaxLen characters,     *)
(* some Document::delete calls on it and then one Document::insert.        *)
(***************************************************************************)
EditAlphabet == {"a", "CM"}

InitEdit ==
    /\ \E d \in {Document_open(<<"x">>, t) : t \in Strings(EditAlphabet \cup {"\n"}, MaxLen)} :
          /\ rows = d.rows
          /\ filename = d.filename
          /\ dirty = d.dirty
          /\ filetype = d.filetype
    /\ last = None
    /\ RowIdle /\ HlIdle /\ EdIdle

\* the call made last was Document::insert
InsertCalled(call) == call # None /\ call[1].op = "insert"

OpenedDelete(x, y) ==
    /\ SetDoc(Document_delete(Doc, [x |-> x, y |-> y]))
    /\ last' = Some(Call("delete", x, y, "", "Ok"))
    /\ UNCHANGED <<edVars, rowVars, hlVars>>

OpenedInsert(x, y, c) ==
    /\ SetDoc(Document_insert(Doc, [x |-> x, y |-> y], c))
    /\ last' = Some(Call("insert", x, y, c, "Ok"))
    /\ UNCHANGED <<edVars, rowVars, hlVars>>

NextEdit ==
    /\ ~InsertCalled(last)
    /\ \/ \E x \in 0..MaxLen, y \in 0..Len(rows) : OpenedDelete(x, y)
       \/ \E x \in 0..MaxLen, y \in 0..(Len(rows) + 1), c \in EditAlphabet \cup {"\n"} :
             OpenedInsert(x, y, c)

SpecEdit == InitEdit /\ [][NextEdit]_vars

\* C21: Document::insert of '\n' at (x, y) increases the line count by
\* exactly 1: when y equals the line count one empty line is appended; when
\* y < line count, line y keeps exactly clusters [0, x), a new line holding
\* clusters [x, end) is placed at index y+1, and all other lines keep their
\* content and relative order.
C21_NewlineSplitsLine ==
    [][(/\ InsertCalled(last')
        /\ last'[1].c = "\n"
        /\ last'[1].y <= Len(rows))
       => LET x == last'[1].x
              y == last'[1].y
          IN  /\ Len(rows') = Len(rows) + 1
              /\ y = Len(rows) => Strs(rows') = Append(Strs(rows), <<>>)
              /\ y < Len(rows)
                 => LET old == rows[y + 1].string
                    IN  /\ rows'[y + 1].string = Clusters(old, 0, x)
                        /\ rows'[y + 2].string = Clusters(old, x, GraphemeCount(old))
                        /\ \A i \in 1..y : rows'[i].string = rows[i].string
                        /\ \A i \in (y + 2)..Len(rows) :
                               rows'[i + 1].string = rows[i].string]_vars

\* '\n' has just been inserted inside a line, at a column that leaves
\* clusters on both sides, one of them with a combining mark
C21_Witness ==
    /\ InsertCalled(last)
    /\ last[1].c = "\n"
    /\ last[1].y < last[1].lines
    /\ last[1].x > 0
    /\ rows[last[1].y + 1].string = <<"a", "CM">>
    /\ rows[last[1].y + 2].string # <<>>

\* the letters of the lines of SpecHl
is_alphabetic(c) == c \in {"a", "b", "c", "d", "e", "f", "i", "n", "o", "r", "v"}

\* a character highlight_number's loop goes on over
IsNumberChar(c) == c = "." \/ is_ascii_digit(c)

\* C23: with numbers enabled, a run of Number labels starts at position i only
\* if the character at i is an ASCII digit and the character at i-1 is a
\* separator or i is 0, and the run covers exactly the maximal following
\* sequence of ASCII digits and '.' characters; a digit that directly follows
\* a letter is never labeled Number.
C23_NumberRuns ==
    \A i \in 1..Len(hrows) :
        (Highlighted(i) /\ hcall[1].word = None /\ HOpts.numbers)
        => LET chars == hrows[i].string
               hl == hrows[i].highlighting
           IN  /\ \A a \in 1..Len(hl), b \in 1..Len(hl) :
                      IsRun(hl, "Number", a, b)
                      => /\ b <= Len(chars)
                         /\ is_ascii_digit(chars[a])
                         /\ a = 1 \/ is_separators(chars[a - 1])
                         /\ \A k \in a..b : IsNumberChar(chars[k])
                         /\ b = Len(chars) \/ ~IsNumberChar(chars[b + 1])
               /\ \A k \in 2..Len(chars) :
                      (is_ascii_digit(chars[k]) /\ is_alphabetic(chars[k - 1]) /\ k <= Len(hl))
                      => hl[k] # "Number"

\* "1.1 a1" was highlighted under the Rust profile: the first three
\* characters are one Number run and the digit after the letter is not
C23_Witness ==
    /\ Highlighted(1) /\ hcall[1].word = None
    /\ hopts.name = "Rust"
    /\ hrows[1].string = <<"1", ".", "1", " ", "a", "1">>
    /\ IsRun(hrows[1].highlighting, "Number", 1, 3)
    /\ hrows[1].highlighting[6] = "None"

\* C24: with strings enabled, when the scan reaches a '"' the String labels
\* cover exactly the characters from that opening quote through the next '"'
\* inclusive, or through the last character of the line when no closing quote
\* exists; the character after the closing quote is scanned afresh and no
\* string state is carried to the next line.
C24_StringLabels ==
    \A i \in 1..Len(hrows) :
        (Highlighted(i) /\ hcall[1].word = None /\ HOpts.strings)
        => LET chars == hrows[i].string
               hl == hrows[i].highlighting
           IN  /\ \A st \in scan_states([index |-> 0, hl |-> <<>>], HOpts, chars) :
                      chars[st.index + 1] = "\""
                      => LET p == st.index
                             closers == {q \in (p + 1)..(Len(chars) - 1) : chars[q + 1] = "\""}
                             q == IF closers = {} THEN Len(chars) - 1 ELSE Minimum(closers)
                             nx == scan_step(st, HOpts, chars)
                         IN  /\ nx.hl = PushN(st.hl, "String", q - p + 1)
                             /\ nx.index = q + 1
                             /\ \A k \in p..q : hl[k + 1] = "String"
               /\ hl = Row_highlight(Row_from(chars), HOpts, None).highlighting

\* the queries and start columns Document::search is tried with on hrows
VisitQueries == {<<"a">>, <<"/">>, <<"a", "b">>}

\* C25: Row::highlight terminates for every line content, configuration and
\* search word: each iteration of the lexical scan advances the scan index by
\* at least 1 and appends exactly as many labels as it advances, and the
\* search-match overlay loop strictly advances its search start on every
\* match; Document::search terminates after visiting at most line-count lines.
C25_LoopsAdvance ==
    /\ \A i \in 1..Len(hrows) :
           Highlighted(i)
           => LET chars == hrows[i].string
                  word == hcall[1].word
              IN  /\ \A st \in scan_states([index |-> 0, hl |-> <<>>], HOpts, chars) :
                         LET nx == scan_step(st, HOpts, chars)
                         IN  /\ nx.index >= st.index + 1
                             /\ Len(nx.hl) - Len(st.hl) = nx.index - st.index
                  /\ (word # None /\ word[1] # <<>>)
                     => LET ix == overlay_indexes(hrows[i], word[1], 0)
                        IN  \A k \in 1..(Len(ix) - 1) : ix[k] < ix[k + 1]
    /\ hcall # None
       => \A query \in VisitQueries, y \in 0..Len(hrows), x \in 0..MaxHlLen,
             direction \in Directions :
              Document_search_visits([rows |-> hrows], query, [x |-> x, y |-> y], direction)
                  <= Len(hrows)

\* "abab" was highlighted with the word "ab": the overlay loop found a match
\* twice and its search start went 0, 2, 4
C25_Witness ==
    /\ Highlighted(1) /\ hcall[1].word = Some(<<"a", "b">>)
    /\ hrows[1].string = Abab
    /\ overlay_indexes(hrows[1], <<"a", "b">>, 0) = <<0, 2, 4>>

\* C26: whenever Document::search returns Some((x, y)) for a non-empty query,
\* y is a valid line index, the query occurs in line y starting at grapheme
\* column x, and the result respects the direction: for Forward it is at or
\* after the start position in (line, column) order, for Backward the whole
\* occurrence lies strictly before the start position.
C26_SearchResultValid ==
    (SearchCalled(last) /\ last[1].c # <<>> /\ last[1].res # None)
    => LET p == last[1].res[1]
           query == last[1].c
       IN  /\ p.y < Len(rows)
           /\ OccursAt(rows[p.y + 1].string, p.x, query)
           /\ last[1].direction = "Forward"
              => \/ p.y > last[1].y
                 \/ p.y = last[1].y /\ p.x >= last[1].x
           /\ last[1].direction = "Backward"
              => \/ p.y < last[1].y
                 \/ /\ p.y = last[1].y
                    /\ p.x < last[1].x
                    /\ OccursAt(Clusters(rows[p.y + 1].string, 0, last[1].x), p.x, query)

\* a backward search for "a" from the start of line 1 of "ba" / "aba" has
\* found the last "a" of line 0
C26_Witness ==
    /\ SearchCalled(last)
    /\ last[1].direction = "Backward"
    /\ last[1].c = <<"a">>
    /\ last[1].y = 1
    /\ Strs(rows) = <<<<"b", "a">>, <<"a", "b", "a">>>>
    /\ last[1].res = Some([x |-> 1, y |-> 0])

(***************************************************************************)
(* Editor (src/src/editor.rs).  An Editor is the record of its fields      *)
(* should_quit, cursor_position, document, offset and quit_count; the size *)
(* of the terminal is fixed.  A key is a string: "Ctrl-c", "Ctrl-s",       *)
(* "Ctrl-f", "Char", "Delete", "Backspace", "Up", "Down", "Left", "Right", *)
(* "PageUp", "PageDown", "End", "Home", or "Esc" for a key with no binding.*)
(***************************************************************************)
QUIT_COUNT == 2

Position_default == [x |-> 0, y |-> 0]

\* self.terminal.size()
TerminalSize == [width |-> 2, height |-> 2]

\* Document::row(index).map(Row::len), 0 when there is no such row
width_of(d, y) == IF y < Len(d.rows) THEN Row_len(d.rows[y + 1]) ELSE 0

move_cursor(e, key) ==
    LET terminal_height == TerminalSize.height
        y == e.cursor_position.y
        x == e.cursor_position.x
        height == Document_len(e.document)
        width == width_of(e.document, y)
        p == CASE key = "Up" -> [x |-> x, y |-> saturating_sub(y, 1)]
               [] key = "Down" -> [x |-> x, y |-> IF y < height THEN y + 1 ELSE y]
               [] key = "Left" ->
                    IF x > 0 THEN [x |-> x - 1, y |-> y]
                    ELSE IF y > 0 THEN [x |-> width_of(e.document, y - 1), y |-> y - 1]
                    ELSE [x |-> x, y |-> y]
               [] key = "Right" ->
                    IF x < width THEN [x |-> x + 1, y |-> y]
                    ELSE IF y < height THEN [x |-> 0, y |-> y + 1]
                    ELSE [x |-> x, y |-> y]
               [] key = "PageUp" ->
                    [x |-> x, y |-> IF y > terminal_height THEN y - terminal_height ELSE 0]
               [] key = "PageDown" ->
                    [x |-> x, y |-> IF y + terminal_height < height
                                    THEN y + terminal_height ELSE height]
               [] key = "Home" -> [x |-> 0, y |-> y]
               [] key = "End" -> [x |-> width, y |-> y]
               [] OTHER -> [x |-> x, y |-> y]
        width1 == width_of(e.document, p.y)
    IN  [e EXCEPT !.cursor_position = [x |-> IF p.x > width1 THEN width1 ELSE p.x, y |-> p.y]]

scroll(e) ==
    LET x == e.cursor_position.x
        y == e.cursor_position.y
        width == TerminalSize.width
        height == TerminalSize.height
        oy == IF y < e.offset.y THEN y
              ELSE IF y >= e.offset.y + height THEN saturating_sub(y, height) + 1
              ELSE e.offset.y
        ox == IF x < e.offset.x THEN x
              ELSE IF x >= e.offset.x + width THEN saturating_sub(x, width) + 1
              ELSE e.offset.x
    IN  [e EXCEPT !.offset = [x |-> ox, y |-> oy]]

\* Editor::save; new_filename is what the prompt returns when it is shown,
\* fail is the failure of save_to_disk
save(e, new_filename, fail) ==
    IF e.document.filename = None /\ new_filename = None THEN e
    ELSE LET d == IF e.document.filename = None
                  THEN [e.document EXCEPT !.filename = new_filename]
                  ELSE e.document
         IN  [e EXCEPT !.document = save_to_disk(d, fail).doc]

\* Editor::prompt: the text typed so far after key
prompt_res(res, key) ==
    IF key = "Backspace"
    THEN IF res # <<>> THEN SubSeq(res, 1, Len(res) - 1) ELSE res
    ELSE IF key \in {"Up", "Down", "Left", "Right"} THEN res
    ELSE Append(res, key)

\* the callback of Editor::search: the direction after key
callback_direction(direction, key) ==
    IF key \in {"Right", "Down"} THEN direction
    ELSE IF key \in {"Left", "Up"} THEN "Backward"
    ELSE "Forward"

\* the callback of Editor::search from its call of Document::search on;
\* e is the Editor after the move to the right when moved
callback_search(e, query, direction, moved) ==
    LET found == Document_search(e.document, query, e.cursor_position, direction)
    IN  IF found # None THEN scroll([e EXCEPT !.cursor_position = found[1]])
        ELSE IF moved THEN move_cursor(e, "Left")
        ELSE e

\* the callback of Editor::search
search_callback(e, key, query, direction) ==
    IF key \in {"Right", "Down"}
    THEN callback_search(move_cursor(e, "Right"), query, direction, TRUE)
    ELSE callback_search(e, query, callback_direction(direction, key), FALSE)

\* the loop of Editor::prompt with the callback of Editor::search, over the
\* keys typed before Enter or Esc; res is the query typed so far
RECURSIVE prompt_search(_, _, _, _)
prompt_search(e, res, direction, keys) ==
    IF keys = <<>> THEN [e |-> e, res |-> res]
    ELSE prompt_search(search_callback(e, Head(keys), prompt_res(res, Head(keys)), direction),
                       prompt_res(res, Head(keys)),
                       callback_direction(direction, Head(keys)),
                       Tail(keys))

\* the end of Editor::search: r is what the prompt loop left, the Editor and
\* the text typed; the query is None after Esc or with no text
search_end(r, end, old_position) ==
    IF end = "Esc" \/ r.res = <<>>
    THEN scroll([r.e EXCEPT !.cursor_position = old_position])
    ELSE r.e

\* Editor::search; keys are typed into the prompt, then end: "\n" or "Esc"
search(e, keys, end) ==
    search_end(prompt_search(e, <<>>, "Forward", keys), end, e.cursor_position)

\* the end of process_key without the reset of quit_count
finish_key_no_reset(e) == scroll(e)

\* the end of process_key: scroll, and quit_count back to QUIT_COUNT
finish_key(e) ==
    LET e1 == scroll(e)
    IN  IF e1.quit_count < QUIT_COUNT THEN [e1 EXCEPT !.quit_count = QUIT_COUNT] ELSE e1

\* press: [key], with c for "Char", new_filename and fail for "Ctrl-s",
\* keys and end for "Ctrl-f"
process_key(e, press) ==
    IF press.key = "Ctrl-c" /\ e.quit_count > 0 /\ is_dirty(e.document)
    THEN [e EXCEPT !.quit_count = @ - 1]
    ELSE finish_key(
           CASE press.key = "Ctrl-c" -> [e EXCEPT !.should_quit = TRUE]
             [] press.key = "Ctrl-s" -> save(e, press.new_filename, press.fail)
             [] press.key = "Ctrl-f" -> search(e, press.keys, press.end)
             [] press.key = "Char" ->
                  move_cursor([e EXCEPT !.document =
                                  Document_insert(@, e.cursor_position, press.c)], "Right")
             [] press.key = "Delete" ->
                  [e EXCEPT !.document = Document_delete(@, e.cursor_position)]
             [] press.key = "Backspace" ->
                  IF e.cursor_position.x > 0 \/ e.cursor_position.y > 0
                  THEN LET m == move_cursor(e, "Left")
                       IN  [m EXCEPT !.document = Document_delete(@, m.cursor_position)]
                  ELSE e
             [] press.key \in {"Up", "Down", "Left", "Right", "PageDown", "PageUp",
                               "End", "Home"} -> move_cursor(e, press.key)
             [] OTHER -> e)

(***************************************************************************)
(* SpecEditor: Editor::default() on no file or on a file of up to          *)
(* MaxEdChars characters, and the keys Editor::run hands to process_key    *)
(* until should_quit is set.                                               *)
(***************************************************************************)
MaxEdChars == 1     \* most scalars and line breaks of the file the editor opens and
                    \* of the Document a character may still be typed into
EditorAlphabet == {"a"}
MoveKeys == {"Up", "Down", "Left", "Right", "PageDown", "PageUp", "End", "Home"}

\* what is typed into the search prompt before Enter or Esc
PromptKeys == {<<>>, <<"a">>, <<"a", "Left">>, <<"Right", "a">>, <<"a", "Backspace">>}

Ed ==
    [should_quit |-> should_quit, cursor_position |-> cursor_position, document |-> Doc,
     offset |-> offset, quit_count |-> quit_count]

InitEditor ==
    /\ \E d \in {Document_default} \cup
                {Document_open(<<"x">>, t) :
                    t \in Strings(EditorAlphabet \cup {"\n"}, MaxEdChars)} :
          /\ rows = d.rows
          /\ filename = d.filename
          /\ dirty = d.dirty
          /\ filetype = d.filetype
    /\ should_quit = FALSE
    /\ cursor_position = Position_default
    /\ offset = Position_default
    /\ quit_count = QUIT_COUNT
    /\ presses = 0
    /\ last = None
    /\ RowIdle /\ HlIdle

\* the cached len of every row stays within the bound of the model
EdLenBounded(rs) == \A i \in 1..Len(rs) : rs[i].len <= MaxEdChars + 1

\* the fields of the Editor afterwards, with the bound on the cached lengths
SetEd(e) ==
    /\ SetDoc(e.document)
    /\ EdLenBounded(e.document.rows)
    /\ should_quit' = e.should_quit
    /\ cursor_position' = e.cursor_position
    /\ offset' = e.offset
    /\ quit_count' = e.quit_count

\* the keys read_key can return, with what the prompts of save and search
\* return and whether save_to_disk fails: Ctrl-C, Ctrl-S, Ctrl-F, a
\* character (while the Document is within the bound), Delete, Backspace,
\* the movement keys and a key with no binding
Presses ==
    {[key |-> "Ctrl-c"], [key |-> "Delete"], [key |-> "Backspace"], [key |-> "Esc"]}
    \cup {[key |-> "Ctrl-s", new_filename |-> n, fail |-> f] :
             n \in IF filename = None THEN {None, Some(<<"x">>)} ELSE {None},
             f \in {None} \cup {Some(k) : k \in 0..Len(rows)}}
    \cup {[key |-> "Ctrl-f", keys |-> ks, end |-> end] :
             ks \in PromptKeys, end \in {"\n", "Esc"}}
    \cup {[key |-> "Char", c |-> c] :
             c \in IF TotalChars(rows) + Len(rows) <= MaxEdChars
                   THEN EditorAlphabet \cup {"\n"} ELSE {}}
    \cup {[key |-> key] : key \in MoveKeys}

\* Editor::run: one process_key while should_quit is false
KeyPress(press) ==
    /\ ~should_quit
    /\ SetEd(process_key(Ed, press))
    /\ presses' = IF press.key = "Ctrl-c"
                  THEN (IF presses < QUIT_COUNT + 1 THEN presses + 1 ELSE presses)
                  ELSE 0
    /\ last' = Some([op |-> "key", ctrl_c |-> press.key = "Ctrl-c"])
    /\ UNCHANGED <<rowVars, hlVars>>

NextEditor == \E press \in Presses : KeyPress(press)

SpecEditor == InitEditor /\ [][NextEditor]_vars

\* process_key has just handled a Ctrl-C / a key that is not Ctrl-C
CtrlCProcessed(call) == call # None /\ call[1].op = "key" /\ call[1].ctrl_c
OtherKeyProcessed(call) == call # None /\ call[1].op = "key" /\ ~call[1].ctrl_c

\* C29: the editor never quits on a Ctrl-C while the document is dirty unless
\* the two keys processed immediately before it were also Ctrl-C presses: any
\* other key between them resets the countdown to 2, and with a clean document
\* the first Ctrl-C quits.
C29_QuitCountdown ==
    [][/\ (CtrlCProcessed(last') /\ is_dirty(Doc) /\ should_quit')
          => presses >= QUIT_COUNT
       /\ (CtrlCProcessed(last') /\ ~is_dirty(Doc)) => should_quit'
       /\ OtherKeyProcessed(last') => quit_count' = QUIT_COUNT]_vars

\* the third Ctrl-C in a row has just quit an editor whose document is dirty
C29_Witness ==
    /\ CtrlCProcessed(last)
    /\ should_quit
    /\ is_dirty(Doc)
    /\ presses = QUIT_COUNT + 1

\* C30: after every key processed by the editor (character insert, newline,
\* Delete, Backspace, arrow/Home/End/PageUp/PageDown movement, search), the
\* cursor position (x, y) satisfies y <= document line count and x <= the
\* length reported by Row::len for line y (x = 0 when y equals the line
\* count), so the position passed to Document::insert and Document::delete is
\* always in the valid range.
C30_CursorInRange ==
    last # None
    => /\ cursor_position.y <= Len(rows)
       /\ cursor_position.x <= width_of(Doc, cursor_position.y)

====
